---- MODULE Spec2Model ----
(***************************************************************************)
(* Verification model of the conveyor job pipeline:                        *)
(*   - the consume loop of the worker (consume.Run) with the broker's      *)
(*     Ack/Nack contract and the channel-close watchdog goroutine,         *)
(*   - the job database backend (jobdb.Backend: PutJob, GetJob, GetJobs),  *)
(*   - the clients (WaitForJobs, the check and submit commands, Prepare    *)
(*     and the packing of scripts),                                        *)
(*   - the processing of one job by a worker (process, runScript).         *)
(***************************************************************************)
EXTENDS Integers, Sequences, FiniteSets, TLC

\* ------------------------------------------------------------------ bounds
MaxMsgs == 2        \* messages published to the broker in one behaviour
MaxAttempts == 4    \* cap on completed processing attempts of one message

\* --max-job-retries flag default
MaxJobRetries == 3

Workers == {"w1"}
Clients == {"c1", "c2"}
Msgs == 1..MaxMsgs

\* ------------------------------------------------------- job descriptions
\* A field value a JSON body does not mention.
Absent == "<absent>"

\* The zero value of "var desc job.Description".
ZeroDesc ==
  [ID |-> "", Repo |-> "", Path |-> "", Payload |-> "", Dependencies |-> <<>>]

DescFields == {"ID", "Repo", "Path", "Payload", "Dependencies"}

\* Message bodies on the queue.  kind "ok": valid JSON of the right shape;
\* kind "syntax": not valid JSON; kind "type": valid JSON with a field of the
\* wrong type (the other fields decode).
Bodies ==
  { [kind |-> "ok", ID |-> "j1", Repo |-> "r1", Path |-> "a",
     Payload |-> "u1", Dependencies |-> Absent],
    [kind |-> "ok", ID |-> "j2", Repo |-> "r1", Path |-> Absent,
     Payload |-> Absent, Dependencies |-> <<"j1">>],
    [kind |-> "syntax", ID |-> Absent, Repo |-> Absent, Path |-> Absent,
     Payload |-> Absent, Dependencies |-> Absent],
    [kind |-> "type", ID |-> Absent, Repo |-> "r2", Path |-> "b",
     Payload |-> "u2", Dependencies |-> Absent] }

Repos == {"", "r1", "r2"}

\* json.Unmarshal(j.Body, &desc): the decoded description.  A syntax error is
\* found before anything is stored; otherwise every field the body carries
\* with the right type is stored and the others keep their old value.
UnmarshalDesc(body, old) ==
  IF body.kind = "syntax" THEN old
  ELSE [f \in DescFields |-> IF body[f] = Absent THEN old[f] ELSE body[f]]

\* json.Unmarshal's error result.
UnmarshalErr(body) == body.kind # "ok"

\* The job a message was published for.
MsgJobID(body) == IF body.ID = Absent THEN "" ELSE body.ID
MsgDeps(body) == IF body.Dependencies = Absent THEN <<>> ELSE body.Dependencies

SeqRange(s) == {s[i] : i \in 1..Len(s)}

VARIABLES
  mstate,    \* broker: message -> "unpublished" | "ready" | "unacked" | "acked" | "dropped"
  mbody,     \* broker: message -> body
  deliv,     \* message -> number of deliveries so far
  attempts,  \* message -> number of completed transaction.Run calls
  disp,      \* message -> dispositions the broker got for its latest delivery
  txres,     \* message -> result of transaction.Run in its latest delivery
  began,     \* message -> a publish transaction was opened for it
  fetched,   \* message -> the task (mkdir + fetch) ran for it
  lost,      \* message -> its latest delivery was in flight when the channel closed
  pc,        \* worker -> position in Run
  cur,       \* worker -> message of the delivery being handled (0: none)
  desc,      \* worker -> the variable desc of Run
  taskErr,   \* worker -> the task returned an error
  repoTx,    \* repository -> holder of the open publish transaction
  table,     \* job database: the set of rows of table Jobs
  put,       \* client -> state of its PutJob call
  putReply,  \* client -> reply and error of its last finished PutJob call
  getReply,  \* reply and error of the last GetJob call
  call,      \* the last call of a function or command, with its result
  wait,      \* client -> state of its WaitForJobs call
  conn,      \* worker -> its channel to the broker: "open" | "closed"
  handler    \* message -> the worker whose loop is handling it ("none": no one)

brokerVars == <<mstate, mbody, deliv, attempts, disp, txres, began, fetched, lost>>
workerVars == <<pc, cur, desc, taskErr, repoTx>>
dbVars == <<table, put, putReply, getReply>>
cliVars == <<call, wait>>
loopVars == <<conn, handler>>
vars == <<mstate, mbody, deliv, attempts, disp, txres, began, fetched, lost,
          pc, cur, desc, taskErr, repoTx, table, put, putReply, getReply,
          call, wait, conn, handler>>

NoTx == [w |-> "", m |-> 0]

NoBody ==
  [kind |-> "none", ID |-> Absent, Repo |-> Absent, Path |-> Absent,
   Payload |-> Absent, Dependencies |-> Absent]

\* ---------------------------------------------------------------- broker
\* A submitter publishes a job description; every accepted job has a fresh ID.
Publish(m, b) ==
  /\ mstate[m] = "unpublished"
  /\ \A k \in Msgs : k < m => mstate[k] # "unpublished"
  /\ \A k \in Msgs : (k < m /\ b.ID # Absent) => mbody[k].ID # b.ID
  /\ \A r \in table : r.ID # b.ID
  /\ mstate' = [mstate EXCEPT ![m] = "ready"]
  /\ mbody' = [mbody EXCEPT ![m] = b]
  /\ UNCHANGED <<deliv, attempts, disp, txres, began, fetched, lost>>
  /\ UNCHANGED workerVars
  /\ UNCHANGED dbVars
  /\ UNCHANGED cliVars
  /\ UNCHANGED loopVars

\* Variant of RunUnmarshalFail: the rejected delivery is requeued.
RunUnmarshalFail_Requeue(w, m) ==
  /\ pc[w] = "wait"
  /\ conn[w] = "open"
  /\ mstate[m] = "ready"
  /\ attempts[m] < MaxAttempts
  /\ deliv[m] < MaxAttempts
  /\ UnmarshalErr(mbody[m])
  /\ desc' = [desc EXCEPT ![w] = UnmarshalDesc(mbody[m], desc[w])]
  /\ deliv' = [deliv EXCEPT ![m] = deliv[m] + 1]
  /\ disp' = [disp EXCEPT ![m] = <<"nack_requeue">>]
  /\ mstate' = [mstate EXCEPT ![m] = "ready"]
  /\ txres' = [txres EXCEPT ![m] = "none"]
  /\ lost' = [lost EXCEPT ![m] = FALSE]
  /\ UNCHANGED <<mbody, attempts, began, fetched, pc, cur, taskErr, repoTx>>
  /\ UNCHANGED dbVars
  /\ UNCHANGED cliVars
  /\ UNCHANGED loopVars

\* ------------------------------------------------------------ consume.Run
\* "for j := range jobs" hands worker w the next delivery; its body does not
\* unmarshal: Nack(false, false) and continue.
RunUnmarshalFail(w, m) ==
  /\ pc[w] = "wait"
  /\ conn[w] = "open"
  /\ mstate[m] = "ready"
  /\ attempts[m] < MaxAttempts
  /\ UnmarshalErr(mbody[m])
  /\ desc' = [desc EXCEPT ![w] = UnmarshalDesc(mbody[m], desc[w])]
  /\ deliv' = [deliv EXCEPT ![m] = deliv[m] + 1]
  /\ disp' = [disp EXCEPT ![m] = <<"nack_drop">>]
  /\ mstate' = [mstate EXCEPT ![m] = "dropped"]
  /\ txres' = [txres EXCEPT ![m] = "none"]
  /\ lost' = [lost EXCEPT ![m] = FALSE]
  /\ UNCHANGED <<mbody, attempts, began, fetched, pc, cur, taskErr, repoTx>>
  /\ UNCHANGED dbVars
  /\ UNCHANGED cliVars
  /\ UNCHANGED loopVars

\* Variant of RunUnmarshalOk: the loop hands the job to a goroutine of its
\* own and takes the next delivery at once.
RunUnmarshalOk_Concurrent(w, m) ==
  /\ pc[w] \notin {"exited", "returned"}
  /\ conn[w] = "open"
  /\ mstate[m] = "ready"
  /\ attempts[m] < MaxAttempts
  /\ ~UnmarshalErr(mbody[m])
  /\ desc' = [desc EXCEPT ![w] = UnmarshalDesc(mbody[m], desc[w])]
  /\ deliv' = [deliv EXCEPT ![m] = deliv[m] + 1]
  /\ disp' = [disp EXCEPT ![m] = <<>>]
  /\ mstate' = [mstate EXCEPT ![m] = "unacked"]
  /\ txres' = [txres EXCEPT ![m] = "none"]
  /\ lost' = [lost EXCEPT ![m] = FALSE]
  /\ cur' = [cur EXCEPT ![w] = m]
  /\ pc' = [pc EXCEPT ![w] = "txbegin"]
  /\ UNCHANGED <<mbody, attempts, began, fetched, taskErr, repoTx>>
  /\ UNCHANGED dbVars
  /\ UNCHANGED cliVars
  /\ handler' = [handler EXCEPT ![m] = w]
  /\ UNCHANGED conn

\* The body unmarshals: the loop goes on to transaction.Run(desc, task).
RunUnmarshalOk(w, m) ==
  /\ pc[w] = "wait"
  /\ conn[w] = "open"
  /\ mstate[m] = "ready"
  /\ attempts[m] < MaxAttempts
  /\ ~UnmarshalErr(mbody[m])
  /\ desc' = [desc EXCEPT ![w] = UnmarshalDesc(mbody[m], desc[w])]
  /\ deliv' = [deliv EXCEPT ![m] = deliv[m] + 1]
  /\ disp' = [disp EXCEPT ![m] = <<>>]
  /\ mstate' = [mstate EXCEPT ![m] = "unacked"]
  /\ txres' = [txres EXCEPT ![m] = "none"]
  /\ lost' = [lost EXCEPT ![m] = FALSE]
  /\ cur' = [cur EXCEPT ![w] = m]
  /\ pc' = [pc EXCEPT ![w] = "txbegin"]
  /\ UNCHANGED <<mbody, attempts, began, fetched, taskErr, repoTx>>
  /\ UNCHANGED dbVars
  /\ UNCHANGED cliVars
  /\ handler' = [handler EXCEPT ![m] = w]
  /\ UNCHANGED conn

\* transaction.Run opens the publish transaction on desc.Repo.  The
\* repository admits one open transaction; opening may also fail.
TxBegin(w) ==
  /\ pc[w] = "txbegin"
  /\ \/ /\ repoTx[desc[w].Repo] = NoTx
        /\ repoTx' = [repoTx EXCEPT ![desc[w].Repo] = [w |-> w, m |-> cur[w]]]
        /\ began' = [began EXCEPT ![cur[w]] = TRUE]
        /\ pc' = [pc EXCEPT ![w] = "task"]
        /\ UNCHANGED <<txres, attempts>>
     \/ /\ txres' = [txres EXCEPT ![cur[w]] = "err"]
        /\ attempts' = [attempts EXCEPT ![cur[w]] = attempts[cur[w]] + 1]
        /\ pc' = [pc EXCEPT ![w] = "dispose"]
        /\ UNCHANGED <<repoTx, began>>
  /\ UNCHANGED <<mstate, mbody, deliv, disp, fetched, lost, cur, desc, taskErr>>
  /\ UNCHANGED dbVars
  /\ UNCHANGED cliVars
  /\ UNCHANGED loopVars

\* The task closure: MkdirAll(targetDir), then getter.GetFile(targetDir,
\* desc.Payload); the first error is returned.
Task(w, outcome) ==
  /\ pc[w] = "task"
  /\ fetched' = [fetched EXCEPT ![cur[w]] = fetched[cur[w]] \/ outcome # "mkdir_err"]
  /\ taskErr' = [taskErr EXCEPT ![w] = outcome # "ok"]
  /\ pc' = [pc EXCEPT ![w] = "txend"]
  /\ UNCHANGED <<mstate, mbody, deliv, attempts, disp, txres, began, lost>>
  /\ UNCHANGED <<cur, desc, repoTx>>
  /\ UNCHANGED dbVars
  /\ UNCHANGED cliVars
  /\ UNCHANGED loopVars

\* Variant of TxEnd: a failed transaction is left open.
TxEnd_NoAbort(w, commitFails) ==
  /\ pc[w] = "txend"
  /\ repoTx' = IF taskErr[w] \/ commitFails THEN repoTx
               ELSE [repoTx EXCEPT ![desc[w].Repo] = NoTx]
  /\ txres' = [txres EXCEPT ![cur[w]] =
                 IF taskErr[w] \/ commitFails THEN "err" ELSE "ok"]
  /\ attempts' = [attempts EXCEPT ![cur[w]] = attempts[cur[w]] + 1]
  /\ taskErr' = [taskErr EXCEPT ![w] = FALSE]
  /\ pc' = [pc EXCEPT ![w] = "dispose"]
  /\ UNCHANGED <<mstate, mbody, deliv, disp, began, fetched, lost, cur, desc>>
  /\ UNCHANGED dbVars
  /\ UNCHANGED cliVars
  /\ UNCHANGED loopVars

\* transaction.Run ends the transaction: abort when the task failed or the
\* commit fails, commit otherwise; then it returns the error, if any.
TxEnd(w, commitFails) ==
  /\ pc[w] = "txend"
  /\ repoTx' = [repoTx EXCEPT ![desc[w].Repo] = NoTx]
  /\ txres' = [txres EXCEPT ![cur[w]] =
                 IF taskErr[w] \/ commitFails THEN "err" ELSE "ok"]
  /\ attempts' = [attempts EXCEPT ![cur[w]] = attempts[cur[w]] + 1]
  /\ taskErr' = [taskErr EXCEPT ![w] = FALSE]
  /\ pc' = [pc EXCEPT ![w] = "dispose"]
  /\ UNCHANGED <<mstate, mbody, deliv, disp, began, fetched, lost, cur, desc>>
  /\ UNCHANGED dbVars
  /\ UNCHANGED cliVars
  /\ UNCHANGED loopVars

\* Variant of RunDispose: no "continue" after the Nack, so the Ack follows.
RunDispose_NoContinue(w) ==
  /\ pc[w] = "dispose"
  /\ IF conn[w] = "closed"
       THEN UNCHANGED <<disp, mstate>>
     ELSE IF txres[cur[w]] = "err"
       THEN /\ disp' = [disp EXCEPT ![cur[w]] = disp[cur[w]] \o <<"nack_requeue", "ack">>]
            /\ mstate' = [mstate EXCEPT ![cur[w]] = "ready"]
       ELSE /\ disp' = [disp EXCEPT ![cur[w]] = Append(disp[cur[w]], "ack")]
            /\ mstate' = [mstate EXCEPT ![cur[w]] = "acked"]
  /\ cur' = [cur EXCEPT ![w] = 0]
  /\ pc' = [pc EXCEPT ![w] = "wait"]
  /\ UNCHANGED <<mbody, deliv, attempts, txres, began, fetched, lost>>
  /\ UNCHANGED <<desc, taskErr, repoTx>>
  /\ UNCHANGED dbVars
  /\ UNCHANGED cliVars
  /\ handler' = [handler EXCEPT ![cur[w]] = "none"]
  /\ UNCHANGED conn

\* transaction.Run returned: Nack(false, true) and continue on an error,
\* Ack(false) otherwise.
RunDispose(w) ==
  /\ pc[w] = "dispose"
  /\ IF conn[w] = "closed"
       THEN UNCHANGED <<disp, mstate>>
     ELSE IF txres[cur[w]] = "err"
       THEN /\ disp' = [disp EXCEPT ![cur[w]] = Append(disp[cur[w]], "nack_requeue")]
            /\ mstate' = [mstate EXCEPT ![cur[w]] = "ready"]
       ELSE /\ disp' = [disp EXCEPT ![cur[w]] = Append(disp[cur[w]], "ack")]
            /\ mstate' = [mstate EXCEPT ![cur[w]] = "acked"]
  /\ cur' = [cur EXCEPT ![w] = 0]
  /\ pc' = [pc EXCEPT ![w] = "wait"]
  /\ UNCHANGED <<mbody, deliv, attempts, txres, began, fetched, lost>>
  /\ UNCHANGED <<desc, taskErr, repoTx>>
  /\ UNCHANGED dbVars
  /\ UNCHANGED cliVars
  /\ handler' = [handler EXCEPT ![cur[w]] = "none"]
  /\ UNCHANGED conn

\* The channel to the broker closes: the broker makes w's unacknowledged
\* delivery ready again, the delivery channel jobs is closed, and the
\* watchdog goroutine receives the close notification.
ChanClosed(w) ==
  /\ conn[w] = "open"
  /\ pc[w] \notin {"exited", "returned"}
  /\ conn' = [conn EXCEPT ![w] = "closed"]
  /\ IF cur[w] # 0
       THEN /\ mstate' = [mstate EXCEPT ![cur[w]] = "ready"]
            /\ lost' = [lost EXCEPT ![cur[w]] = TRUE]
       ELSE UNCHANGED <<mstate, lost>>
  /\ UNCHANGED <<mbody, deliv, attempts, disp, txres, began, fetched>>
  /\ UNCHANGED workerVars
  /\ UNCHANGED handler
  /\ UNCHANGED dbVars
  /\ UNCHANGED cliVars

\* The watchdog goroutine, having received the notification, logs it and
\* calls os.Exit(1): the process ends wherever the consume loop is.  A
\* publish transaction the process held stays open.
WatchdogExit(w) ==
  /\ conn[w] = "closed"
  /\ pc[w] \notin {"exited", "returned"}
  /\ pc' = [pc EXCEPT ![w] = "exited"]
  /\ cur' = [cur EXCEPT ![w] = 0]
  /\ handler' = [m \in Msgs |-> IF handler[m] = w THEN "none" ELSE handler[m]]
  /\ UNCHANGED <<desc, taskErr, repoTx>>
  /\ UNCHANGED conn
  /\ UNCHANGED brokerVars
  /\ UNCHANGED dbVars
  /\ UNCHANGED cliVars

\* "for j := range jobs" finds the delivery channel closed: the loop ends
\* and Run returns to the command, which ends without os.Exit(1).
RunReturn(w) ==
  /\ conn[w] = "closed"
  /\ pc[w] = "wait"
  /\ pc' = [pc EXCEPT ![w] = "returned"]
  /\ UNCHANGED <<cur, desc, taskErr, repoTx>>
  /\ UNCHANGED loopVars
  /\ UNCHANGED brokerVars
  /\ UNCHANGED dbVars
  /\ UNCHANGED cliVars

\* ------------------------------------------------------------ job database
JobIDs == {"j1", "j2"}

\* A finished job as a worker reports it (job.Processed).
MkProcessed(id, ok) ==
  [ID |-> id, Repository |-> "r1", Payload |-> "u1", RepositoryPath |-> "/a",
   Script |-> "", ScriptArgs |-> "", TransferScript |-> FALSE,
   Dependencies |-> IF id # "j2" THEN <<>>
                    ELSE IF ok THEN <<"j1">> ELSE <<"j1", "j3">>,
   StartTime |-> 1, FinishTime |-> 2,
   Successful |-> ok, ErrorMessage |-> IF ok THEN "" ELSE "failed"]

ProcessedJobs == {MkProcessed(id, ok) : id \in JobIDs, ok \in BOOLEAN}

NoJob == MkProcessed("", TRUE)

\* strings.Join(deps, ","): a string is the sequence of its tokens, an ID
\* being one token, the empty string none, and "," a token of its own.
RECURSIVE JoinDeps(_)
JoinDeps(deps) ==
  IF deps = <<>> THEN <<>>
  ELSE LET h == IF Head(deps) = "" THEN <<>> ELSE <<Head(deps)>>
       IN IF Len(deps) = 1 THEN h ELSE h \o <<",">> \o JoinDeps(Tail(deps))

\* strings.Split(s, ","): the pieces between the "," tokens.
RECURSIVE SplitDeps(_, _)
SplitDeps(s, piece) ==
  IF s = <<>> THEN <<piece>>
  ELSE IF Head(s) = "," THEN <<piece>> \o SplitDeps(Tail(s), "")
  ELSE SplitDeps(Tail(s), Head(s))

\* The column values of PutJob's insert statement.
InsertRow(j) == [j EXCEPT !.Dependencies = JoinDeps(j.Dependencies)]

\* Variant of scanRow: the column is split even when it is empty.
scanRow_SplitsEmpty(row) ==
  [row EXCEPT !.Dependencies = SplitDeps(row.Dependencies, "")]

\* scanRow: a stored row read back as a job.Processed.
scanRow(row) ==
  [row EXCEPT !.Dependencies =
     IF row.Dependencies # <<>> THEN SplitDeps(row.Dependencies, "") ELSE <<>>]

RowsOf(tbl, id) == {r \in tbl : r.ID = id}

\* The primary key of table Jobs: an insert of a present ID is refused.
KeyConflict(tbl, id) == RowsOf(tbl, id) # {}

OkReply == [Status |-> "ok", Reason |-> "", IDs |-> <<>>, Jobs |-> <<>>]
ErrReply(reason) == [Status |-> "error", Reason |-> reason, IDs |-> <<>>, Jobs |-> <<>>]

\* Variant of GetJob: an ID without a row is reported as an error.
GetJob_NotFoundError(tbl, id, full, fail) ==
  IF fail = "query"
    THEN [reply |-> ErrReply("query error"), err |-> TRUE]
  ELSE IF RowsOf(tbl, id) = {} \/ fail = "next"
    THEN [reply |-> ErrReply("not found"), err |-> TRUE]
  ELSE IF fail = "scan"
    THEN [reply |-> ErrReply("query failed"), err |-> TRUE]
  ELSE LET st == scanRow(CHOOSE r \in RowsOf(tbl, id) : TRUE)
       IN IF full
            THEN [reply |-> [OkReply EXCEPT !.Jobs = <<st>>], err |-> FALSE]
            ELSE [reply |-> [OkReply EXCEPT
                     !.IDs = <<[ID |-> st.ID, Successful |-> st.Successful]>>],
                  err |-> FALSE]

\* Backend.GetJob(id, full) on table tbl.  fail names the database call that
\* fails, if any: "query" (db.Query), "next" (rows.Next), "scan" (rows.Scan).
GetJob(tbl, id, full, fail) ==
  IF fail = "query"
    THEN [reply |-> ErrReply("query error"), err |-> TRUE]
  ELSE IF RowsOf(tbl, id) = {} \/ fail = "next"
    THEN [reply |-> OkReply, err |-> FALSE]
  ELSE IF fail = "scan"
    THEN [reply |-> ErrReply("query failed"), err |-> TRUE]
  ELSE LET st == scanRow(CHOOSE r \in RowsOf(tbl, id) : TRUE)
       IN IF full
            THEN [reply |-> [OkReply EXCEPT !.Jobs = <<st>>], err |-> FALSE]
            ELSE [reply |-> [OkReply EXCEPT
                     !.IDs = <<[ID |-> st.ID, Successful |-> st.Successful]>>],
                  err |-> FALSE]

GetFails == {"none", "query", "next", "scan"}

NoWait == [pc |-> "idle", ids |-> <<>>, polls |-> 0, stats |-> <<>>, err |-> FALSE]

NoGet ==
  [called |-> FALSE, id |-> "", full |-> FALSE, fail |-> "none",
   found |-> FALSE, reply |-> OkReply, err |-> FALSE]

\* A client calls GetJob; the call and its result are recorded.
GetJobCall(id, full, fail) ==
  /\ getReply' = [called |-> TRUE, id |-> id, full |-> full, fail |-> fail,
                  found |-> RowsOf(table, id) # {},
                  reply |-> GetJob(table, id, full, fail).reply,
                  err |-> GetJob(table, id, full, fail).err]
  /\ UNCHANGED <<table, put, putReply>>
  /\ UNCHANGED brokerVars
  /\ UNCHANGED workerVars
  /\ UNCHANGED cliVars
  /\ UNCHANGED loopVars

\* ------------------------------------------------------------ GetJobs
MaxIDs == 2

\* The ID lists a caller passes: IDs of jobs and an ID no job has.
AskedIDs == JobIDs \cup {"j3"}
IDLists == UNION {[1..n -> AskedIDs] : n \in 0..MaxIDs}

\* The rows "select * from Jobs where Jobs.ID in ($1, ..., $n)" selects.
InQuery(tbl, ids) == {r \in tbl : r.ID \in SeqRange(ids)}

\* The orders in which the database may hand out the rows rs.
RowOrders(rs) ==
  {o \in [1..Cardinality(rs) -> rs] : \A i, k \in 1..Cardinality(rs) : o[i] = o[k] => i = k}

\* The calls below are looked at one by one: each is made in the state
\* where none has been made.
NoCall == [op |-> "none"]

\* The loop "for rows.Next() { scanRow ... append }" from row i on, reply
\* holding what the rows before i gave.  fail and at name the call that
\* fails, as in GetJob, and the row at which it fails.  rows.Next() answers
\* false on an error as at the end of the rows, and rows.Err() is not read.
RECURSIVE RowLoop(_, _, _, _, _, _)
RowLoop(rows, full, fail, at, i, reply) ==
  IF i > Len(rows) \/ (fail = "next" /\ at = i)
    THEN [panic |-> FALSE, reply |-> reply, err |-> FALSE]
  ELSE IF fail = "scan" /\ at = i
    THEN [panic |-> FALSE, reply |-> ErrReply("SQL query scan failed"), err |-> TRUE]
  ELSE LET st == scanRow(rows[i])
       IN RowLoop(rows, full, fail, at, i + 1,
                  IF full
                    THEN [reply EXCEPT !.Jobs = Append(reply.Jobs, st)]
                    ELSE [reply EXCEPT !.IDs =
                            Append(reply.IDs, [ID |-> st.ID, Successful |-> st.Successful])])

\* Variant of GetJobs: the last ID of the list is left out of the query.
GetJobs_LastIDLeftOut(tbl, ids, full, order, fail, at) ==
  IF ids = <<>>
    THEN [panic |-> TRUE, reply |-> OkReply, err |-> FALSE]
  ELSE IF fail = "query"
    THEN [panic |-> FALSE, reply |-> ErrReply("SQL query failed"), err |-> TRUE]
  ELSE RowLoop(SelectSeq(order, LAMBDA r :
                 r \in InQuery(tbl, SubSeq(ids, 1, Len(ids) - 1))),
               full, fail, at, 1, OkReply)

\* Backend.GetJobs(ids, full) on table tbl; order is the order in which the
\* database hands out the selected rows.  ids[0 : len(ids)-1] of an empty
\* list is out of range and the call panics.
GetJobs(tbl, ids, full, order, fail, at) ==
  IF ids = <<>>
    THEN [panic |-> TRUE, reply |-> OkReply, err |-> FALSE]
  ELSE IF fail = "query"
    THEN [panic |-> FALSE, reply |-> ErrReply("SQL query failed"), err |-> TRUE]
  ELSE RowLoop(order, full, fail, at, 1, OkReply)

\* A client calls GetJobs; the call and its result are recorded.
GetJobsCall(ids, full, fail, at) ==
  /\ call = NoCall
  /\ fail \in {"next", "scan"} \/ at = 1
  /\ \E order \in RowOrders(InQuery(table, ids)) :
       call' = [op |-> "GetJobs", ids |-> ids, full |-> full, rows |-> order,
                fail |-> fail, at |-> at,
                panic |-> GetJobs(table, ids, full, order, fail, at).panic,
                reply |-> GetJobs(table, ids, full, order, fail, at).reply,
                err |-> GetJobs(table, ids, full, order, fail, at).err]
  /\ UNCHANGED wait
  /\ UNCHANGED dbVars
  /\ UNCHANGED brokerVars
  /\ UNCHANGED workerVars
  /\ UNCHANGED loopVars

\* Variant of InsertStmt: "insert ... on conflict (ID) do update".
InsertStmt_Upsert(tbl, j) ==
  [err |-> FALSE, tbl |-> (tbl \ RowsOf(tbl, j.ID)) \cup {InsertRow(j)}]

\* PutJob's statement "insert into jobs (...) values (...)" applied to tbl:
\* whether it is refused, and the table it leaves once committed.
InsertStmt(tbl, j) ==
  IF KeyConflict(tbl, j.ID)
    THEN [err |-> TRUE, tbl |-> tbl]
    ELSE [err |-> FALSE, tbl |-> tbl \cup {InsertRow(j)}]

NoPut == [pc |-> "idle", job |-> NoJob]

\* PutJob's reply and error, with the call they answer (id: the job's ID,
\* injected: the database call was made to fail).
NoPutReply ==
  [Status |-> "", Reason |-> "", err |-> FALSE, id |-> "", injected |-> FALSE]
PutOk(id) ==
  [Status |-> "ok", Reason |-> "", err |-> FALSE, id |-> id, injected |-> FALSE]
PutErr(reason, id, injected) ==
  [Status |-> "error", Reason |-> reason, err |-> TRUE, id |-> id,
   injected |-> injected]

\* Backend.PutJob(j), first step: b.db.Begin().
PutBegin(c, j, fails) ==
  /\ put[c].pc = "idle"
  /\ IF fails
       THEN /\ putReply' = [putReply EXCEPT ![c] =
                   PutErr("opening SQL transaction failed", j.ID, TRUE)]
            /\ UNCHANGED put
       ELSE /\ put' = [put EXCEPT ![c] = [pc |-> "begun", job |-> j]]
            /\ putReply' = [putReply EXCEPT ![c] = NoPutReply]
  /\ UNCHANGED <<table, getReply>>
  /\ UNCHANGED brokerVars
  /\ UNCHANGED workerVars
  /\ UNCHANGED cliVars
  /\ UNCHANGED loopVars

\* Variant of PutExec: the statement runs on the connection (b.db.Exec),
\* outside the transaction, and so is stored at once.
PutExec_AutoCommit(c, fails) ==
  /\ put[c].pc = "begun"
  /\ IF fails \/ InsertStmt(table, put[c].job).err
       THEN /\ putReply' = [putReply EXCEPT ![c] =
                   PutErr("executing SQL statement failed", put[c].job.ID, fails)]
            /\ put' = [put EXCEPT ![c] = NoPut]
            /\ UNCHANGED table
       ELSE /\ put' = [put EXCEPT ![c].pc = "execd"]
            /\ table' = InsertStmt(table, put[c].job).tbl
            /\ UNCHANGED putReply
  /\ UNCHANGED getReply
  /\ UNCHANGED brokerVars
  /\ UNCHANGED workerVars
  /\ UNCHANGED cliVars
  /\ UNCHANGED loopVars

\* Second step: tx.Exec of the insert statement.  The insert waits while
\* another open transaction holds an uncommitted row of the same ID; on an
\* error the deferred tx.Rollback() ends the transaction.
PutExec(c, fails) ==
  /\ put[c].pc = "begun"
  /\ \A d \in Clients \ {c} :
       ~(put[d].pc = "execd" /\ put[d].job.ID = put[c].job.ID)
  /\ IF fails \/ InsertStmt(table, put[c].job).err
       THEN /\ putReply' = [putReply EXCEPT ![c] =
                   PutErr("executing SQL statement failed", put[c].job.ID, fails)]
            /\ put' = [put EXCEPT ![c] = NoPut]
       ELSE /\ put' = [put EXCEPT ![c].pc = "execd"]
            /\ UNCHANGED putReply
  /\ UNCHANGED <<table, getReply>>
  /\ UNCHANGED brokerVars
  /\ UNCHANGED workerVars
  /\ UNCHANGED cliVars
  /\ UNCHANGED loopVars

\* Third step: tx.Commit().  Only a commit that succeeds stores the row.
PutCommit(c, fails) ==
  /\ put[c].pc = "execd"
  /\ IF fails
       THEN /\ putReply' = [putReply EXCEPT ![c] =
                   PutErr("committing SQL transaction failed", put[c].job.ID, TRUE)]
            /\ UNCHANGED table
       ELSE /\ putReply' = [putReply EXCEPT ![c] = PutOk(put[c].job.ID)]
            /\ table' = InsertStmt(table, put[c].job).tbl
  /\ put' = [put EXCEPT ![c] = NoPut]
  /\ UNCHANGED getReply
  /\ UNCHANGED brokerVars
  /\ UNCHANGED workerVars
  /\ UNCHANGED cliVars
  /\ UNCHANGED loopVars

\* Where one PutJob call can be made to fail.
PutFails == {"none", "begin", "exec", "commit"}

\* Variant of PutJob: a failed commit is logged and the call returns no error.
PutJob_CommitErrorDropped(tbl, j, fail) ==
  IF fail = "begin"
    THEN [reply |-> [Status |-> "error", Reason |-> "opening SQL transaction failed"], err |-> TRUE, tbl |-> tbl]
  ELSE IF fail = "exec" \/ InsertStmt(tbl, j).err
    THEN [reply |-> [Status |-> "error", Reason |-> "executing SQL statement failed"], err |-> TRUE, tbl |-> tbl]
  ELSE IF fail = "commit"
    THEN [reply |-> [Status |-> "error", Reason |-> "committing SQL transaction failed"], err |-> FALSE, tbl |-> tbl]
  ELSE [reply |-> [Status |-> "ok", Reason |-> ""], err |-> FALSE, tbl |-> InsertStmt(tbl, j).tbl]

\* Backend.PutJob(j) as one call of a client that has the database to
\* itself: the reply, whether an error is returned, and the table left.
PutJob(tbl, j, fail) ==
  IF fail = "begin"
    THEN [reply |-> [Status |-> "error", Reason |-> "opening SQL transaction failed"], err |-> TRUE, tbl |-> tbl]
  ELSE IF fail = "exec" \/ InsertStmt(tbl, j).err
    THEN [reply |-> [Status |-> "error", Reason |-> "executing SQL statement failed"], err |-> TRUE, tbl |-> tbl]
  ELSE IF fail = "commit"
    THEN [reply |-> [Status |-> "error", Reason |-> "committing SQL transaction failed"], err |-> TRUE, tbl |-> tbl]
  ELSE [reply |-> [Status |-> "ok", Reason |-> ""], err |-> FALSE, tbl |-> InsertStmt(tbl, j).tbl]

\* A client calls PutJob; the call and its result are recorded.
PutJobCall(j, fail) ==
  /\ call = NoCall
  /\ call' = [op |-> "PutJob", job |-> j, fail |-> fail,
              conflict |-> KeyConflict(table, j.ID),
              reply |-> PutJob(table, j, fail).reply,
              err |-> PutJob(table, j, fail).err]
  /\ table' = PutJob(table, j, fail).tbl
  /\ UNCHANGED <<put, putReply, getReply>>
  /\ UNCHANGED wait
  /\ UNCHANGED brokerVars
  /\ UNCHANGED workerVars
  /\ UNCHANGED loopVars

\* -------------------------------------------------- client: WaitForJobs
MaxPolls == 2

\* Whether reply holds a status for every ID of ids.
AllTerminal(ids, reply) ==
  \A i \in 1..Len(ids) : \E k \in 1..Len(reply.IDs) : reply.IDs[k].ID = ids[i]

\* WaitForJobs(ids, repo, timeout) is called.
WaitStart(ids) ==
  /\ wait.pc = "idle"
  /\ wait' = [pc |-> "polling", ids |-> ids, polls |-> 0, stats |-> <<>>, err |-> FALSE]
  /\ UNCHANGED call
  /\ UNCHANGED dbVars
  /\ UNCHANGED brokerVars
  /\ UNCHANGED workerVars
  /\ UNCHANGED loopVars

\* Variant of WaitPoll: at the timeout the statuses read so far are returned.
WaitPoll_PartialOnTimeout(fail, at) ==
  /\ wait.pc = "polling"
  /\ \E order \in RowOrders(InQuery(table, wait.ids)) :
     LET r == GetJobs(table, wait.ids, FALSE, order, fail, at)
     IN wait' =
          IF r.panic \/ r.err \/ r.reply.Status # "ok"
            THEN [wait EXCEPT !.pc = "failed", !.err = TRUE]
          ELSE IF AllTerminal(wait.ids, r.reply) \/ wait.polls >= MaxPolls
            THEN [wait EXCEPT !.pc = "done", !.stats = r.reply.IDs]
          ELSE [wait EXCEPT !.polls = @ + 1]
  /\ UNCHANGED call
  /\ UNCHANGED dbVars
  /\ UNCHANGED brokerVars
  /\ UNCHANGED workerVars
  /\ UNCHANGED loopVars

\* One round of WaitForJobs: GetJobStatus is asked for the brief statuses,
\* which the server reads with GetJobs.  A failed query ends the wait with
\* an error; statuses for all the IDs end it with these statuses; otherwise
\* the wait goes on for another interval, and fails when the timeout
\* (MaxPolls intervals) has passed.
WaitPoll(fail, at) ==
  /\ wait.pc = "polling"
  /\ \E order \in RowOrders(InQuery(table, wait.ids)) :
     LET r == GetJobs(table, wait.ids, FALSE, order, fail, at)
     IN wait' =
          IF r.panic \/ r.err \/ r.reply.Status # "ok"
            THEN [wait EXCEPT !.pc = "failed", !.err = TRUE]
          ELSE IF AllTerminal(wait.ids, r.reply)
            THEN [wait EXCEPT !.pc = "done", !.stats = r.reply.IDs]
          ELSE IF wait.polls >= MaxPolls
            THEN [wait EXCEPT !.pc = "failed", !.err = TRUE]
          ELSE [wait EXCEPT !.polls = @ + 1]
  /\ UNCHANGED call
  /\ UNCHANGED dbVars
  /\ UNCHANGED brokerVars
  /\ UNCHANGED workerVars
  /\ UNCHANGED loopVars

\* ---------------------------------------------------- the check command
\* printStatus(id, st): the status as one line of JSON.  The statuses come
\* out of a decoded JSON reply, for which json.Marshal does not fail.
printStatus(st) == <<[json |-> st]>>

\* The loops "for _, j := range ... { printStatus(j.ID, j) }".
RECURSIVE PrintAll(_)
PrintAll(list) ==
  IF list = <<>> THEN <<>> ELSE printStatus(Head(list)) \o PrintAll(Tail(list))

\* Variant of checkCmd: the reply's Status is not looked at.
checkCmd_StatusNotChecked(startErr, waitRes, getErr, stats, extended) ==
  IF startErr # "none" \/ waitRes = "failed" \/ getErr
    THEN [exit |-> 1, out |-> <<>>]
  ELSE [exit |-> 0, out |-> PrintAll(IF extended THEN stats.Jobs ELSE stats.IDs)]

\* The Run function of checkCmd: the exit status and the lines printed.
\* startErr: ReadConfig or NewJobClient failed; waitRes: "off" without
\* --wait, else whether WaitForJobs returned "ok" or "failed"; getErr and
\* stats: what GetJobStatus returned.
checkCmd(startErr, waitRes, getErr, stats, extended) ==
  IF startErr # "none" THEN [exit |-> 1, out |-> <<>>]
  ELSE IF waitRes = "failed" THEN [exit |-> 1, out |-> <<>>]
  ELSE IF getErr THEN [exit |-> 1, out |-> <<>>]
  ELSE IF stats.Status # "ok" THEN [exit |-> 1, out |-> <<>>]
  ELSE [exit |-> 0, out |-> PrintAll(IF extended THEN stats.Jobs ELSE stats.IDs)]

\* The check command runs.  The server answers GetJobStatus with the reply
\* of GetJobs; getErr says whether the client's call itself failed, which
\* it also does when the server panics.
CheckRun(startErr, waitRes, getErr, extended, ids, fail, at) ==
  /\ call = NoCall
  /\ fail \in {"next", "scan"} \/ at = 1
  /\ \E order \in RowOrders(InQuery(table, ids)) :
     LET r == GetJobs(table, ids, extended, order, fail, at)
         e == getErr \/ r.panic
         res == checkCmd(startErr, waitRes, e, r.reply, extended)
     IN call' = [op |-> "check", startErr |-> startErr, waitRes |-> waitRes,
                 getErr |-> e, stats |-> r.reply, extended |-> extended,
                 exit |-> res.exit, out |-> res.out]
  /\ UNCHANGED wait
  /\ UNCHANGED dbVars
  /\ UNCHANGED brokerVars
  /\ UNCHANGED workerVars
  /\ UNCHANGED loopVars

\* ------------------------------------------------- submission: Prepare
MaxPathLen == 2
MaxScriptLen == 2
BufSize == 2

\* A byte; texts (paths, file names, encoded bodies) are sequences of
\* characters, the empty string being <<>>.
Bytes == {0, 1, 2, 3}
ByteSeqs(n) == UNION {[1..k -> Bytes] : k \in 0..n}

Min(a, b) == IF a < b THEN a ELSE b

\* The loop of packScript reading the input through a bufio.Reader, buffers
\* of BufSize bytes: rest is what the reader still holds, k counts the Read
\* calls and readErr names the call that fails (0: none).  A Read of n = 0
\* bytes ends the loop.
RECURSIVE ReadInput(_, _, _, _)
ReadInput(rest, readErr, k, input) ==
  IF readErr = k THEN [err |-> TRUE, input |-> <<>>]
  ELSE IF rest = <<>> THEN [err |-> FALSE, input |-> input]
  ELSE LET n == Min(Len(rest), BufSize)
       IN ReadInput(SubSeq(rest, n + 1, Len(rest)), readErr, k + 1,
                    input \o SubSeq(rest, 1, n))

\* compress/gzip, reduced to what the round trip rests on: a stream is a
\* header, the compressed data and a trailer with checksum and length of
\* the input.  The data are the input's bytes coded as the difference from
\* the byte before.
GzMagic == <<3, 1>>
Crc(s) == IF s = <<>> THEN 0 ELSE (Len(s) + s[1] + 3 * s[Len(s)]) % 4
Deflate(s) == [i \in 1..Len(s) |-> (s[i] - (IF i = 1 THEN 0 ELSE s[i - 1]) + 4) % 4]
RECURSIVE Inflate(_, _)
Inflate(d, prev) ==
  IF d = <<>> THEN <<>>
  ELSE <<(Head(d) + prev) % 4>> \o Inflate(Tail(d), (Head(d) + prev) % 4)

\* gz.Write(input) followed by gz.Close(): the whole stream.
GzipWriteClose(input) == GzMagic \o Deflate(input) \o <<Crc(input), Len(input) % 4>>
\* gz.Write(input) alone: the trailer is written by Close only.
GzipWrite(input) == GzMagic \o Deflate(input)

\* gzip.NewReader and ioutil.ReadAll: "header" if the stream does not start
\* with a header, "data" if it ends early or the trailer does not fit.
Gunzip(b) ==
  IF Len(b) < 2 \/ SubSeq(b, 1, 2) # GzMagic
    THEN [err |-> "header", out |-> <<>>]
  ELSE IF Len(b) < 4
    THEN [err |-> "data", out |-> <<>>]
  ELSE LET out == Inflate(SubSeq(b, 3, Len(b) - 2), 0)
       IN IF b[Len(b) - 1] = Crc(out) /\ b[Len(b)] = Len(out) % 4
            THEN [err |-> "", out |-> out]
            ELSE [err |-> "data", out |-> <<>>]

\* encoding/base64, reduced likewise: every byte becomes two characters of
\* the alphabet, and only such pairs decode.
B64Alphabet == <<"A", "B">>
B64Value(c) == IF c = "A" THEN 0 ELSE 1
RECURSIVE EncodeToString(_)
EncodeToString(b) ==
  IF b = <<>> THEN <<>>
  ELSE <<B64Alphabet[(Head(b) \div 2) + 1], B64Alphabet[(Head(b) % 2) + 1]>>
         \o EncodeToString(Tail(b))
RECURSIVE DecodeString(_)
DecodeString(t) ==
  IF t = <<>> THEN [err |-> FALSE, out |-> <<>>]
  ELSE IF Len(t) = 1 \/ \E i \in 1..2 : t[i] \notin SeqRange(B64Alphabet)
    THEN [err |-> TRUE, out |-> <<>>]
  ELSE LET r == DecodeString(SubSeq(t, 3, Len(t)))
       IN IF r.err THEN r
          ELSE [err |-> FALSE, out |-> <<2 * B64Value(t[1]) + B64Value(t[2])>> \o r.out]

\* A script file as Prepare finds it: whether os.Open succeeds, its
\* content, and the Read call that fails (0: none).
ScriptFiles ==
  {[opens |-> FALSE, content |-> <<>>, readErr |-> 0]} \cup
  {[opens |-> TRUE, content |-> b, readErr |-> e] :
     b \in ByteSeqs(MaxScriptLen), e \in 0..2}

\* Variant of packScript: the gzip writer is not closed.
packScript_NoClose(reader) ==
  LET rd == ReadInput(reader.content, reader.readErr, 1, <<>>)
  IN IF rd.err THEN [err |-> "could not read input", out |-> <<>>]
     ELSE [err |-> "", out |-> EncodeToString(GzipWrite(rd.input))]

\* packScript(reader): read all, gzip, base64.  The writes go to a
\* bytes.Buffer and do not fail.
packScript(reader) ==
  LET rd == ReadInput(reader.content, reader.readErr, 1, <<>>)
  IN IF rd.err THEN [err |-> "could not read input", out |-> <<>>]
     ELSE [err |-> "", out |-> EncodeToString(GzipWriteClose(rd.input))]

\* unpackScript(body, dest): what is written to dest and the error;
\* destOk says whether dest.Write succeeds.
unpackScript(body, destOk) ==
  LET dec == DecodeString(body)
      gz == Gunzip(dec.out)
  IN IF dec.err THEN [err |-> "base64 decoding failed", written |-> <<>>]
     ELSE IF gz.err = "header"
       THEN [err |-> "gzip reader construction failed", written |-> <<>>]
     ELSE IF gz.err = "data"
       THEN [err |-> "decompression failed", written |-> <<>>]
     ELSE IF ~destOk THEN [err |-> "writing failed", written |-> <<>>]
     ELSE [err |-> "", written |-> gz.out]

\* The job specifications of the submit command: every path of up to
\* MaxPathLen characters, no script or the script file "f".
PathChars == {"/", "a"}
Paths == UNION {[1..n -> PathChars] : n \in 0..MaxPathLen}
JobSpecifications ==
  {[Repository |-> "r1", Payload |-> "u1", RepositoryPath |-> p,
    Script |-> sc, ScriptArgs |-> "x", TransferScript |-> t,
    Dependencies |-> <<"j1">>] :
     p \in Paths, sc \in {<<>>, <<"f">>}, t \in BOOLEAN}

\* Variant of Prepare: the script is packed whether or not TransferScript
\* is set.
Prepare_PacksAnyScript(spec, file) ==
  IF spec.RepositoryPath = <<>>
    THEN [panic |-> TRUE, err |-> "", spec |-> spec]
  ELSE LET spec1 == IF Head(spec.RepositoryPath) # "/"
                      THEN [spec EXCEPT !.RepositoryPath = <<"/">> \o @]
                      ELSE spec
       IN IF spec1.Script # <<>>
            THEN IF ~file.opens
                   THEN [panic |-> FALSE, err |-> "could not open script", spec |-> spec1]
                 ELSE IF packScript(file).err # ""
                   THEN [panic |-> FALSE, err |-> "could not pack script", spec |-> spec1]
                 ELSE [panic |-> FALSE, err |-> "",
                       spec |-> [spec1 EXCEPT !.Script = packScript(file).out]]
            ELSE [panic |-> FALSE, err |-> "", spec |-> spec1]

\* spec.Prepare(), file being the file spec.Script names.  The index
\* spec.RepositoryPath[0] of an empty path is out of range: the call panics.
Prepare(spec, file) ==
  IF spec.RepositoryPath = <<>>
    THEN [panic |-> TRUE, err |-> "", spec |-> spec]
  ELSE LET spec1 == IF Head(spec.RepositoryPath) # "/"
                      THEN [spec EXCEPT !.RepositoryPath = <<"/">> \o @]
                      ELSE spec
       IN IF spec1.Script # <<>> /\ spec1.TransferScript
            THEN IF ~file.opens
                   THEN [panic |-> FALSE, err |-> "could not open script", spec |-> spec1]
                 ELSE IF packScript(file).err # ""
                   THEN [panic |-> FALSE, err |-> "could not pack script", spec |-> spec1]
                 ELSE [panic |-> FALSE, err |-> "",
                       spec |-> [spec1 EXCEPT !.Script = packScript(file).out]]
            ELSE [panic |-> FALSE, err |-> "", spec |-> spec1]

\* The submit command prepares a job specification.
PrepareCall(spec, file) ==
  /\ call = NoCall
  /\ call' = [op |-> "Prepare", in |-> spec, file |-> file,
              panic |-> Prepare(spec, file).panic,
              err |-> Prepare(spec, file).err,
              out |-> Prepare(spec, file).spec]
  /\ UNCHANGED wait
  /\ UNCHANGED dbVars
  /\ UNCHANGED brokerVars
  /\ UNCHANGED workerVars
  /\ UNCHANGED loopVars

\* A script is packed and the result unpacked again.
PackUnpackCall(s) ==
  /\ call = NoCall
  /\ call' = [op |-> "PackUnpack", in |-> s,
              packed |-> packScript([opens |-> TRUE, content |-> s, readErr |-> 0]),
              unpacked |-> unpackScript(
                 packScript([opens |-> TRUE, content |-> s, readErr |-> 0]).out, TRUE)]
  /\ UNCHANGED wait
  /\ UNCHANGED dbVars
  /\ UNCHANGED brokerVars
  /\ UNCHANGED workerVars
  /\ UNCHANGED loopVars

\* The bodies a worker may be handed: packed scripts, whole, cut short, or
\* with a character that is not of the alphabet.
PackedScripts ==
  {packScript([opens |-> TRUE, content |-> b, readErr |-> 0]).out :
     b \in ByteSeqs(MaxScriptLen)}
Bodies64 ==
  PackedScripts
  \cup UNION {{SubSeq(t, 1, n) : n \in 0..(Len(t) - 1)} : t \in PackedScripts}
  \cup {[t EXCEPT ![Len(t)] = "-"] : t \in PackedScripts \ {<<>>}}

\* A worker unpacks the script body of a job.
UnpackCall(body, destOk) ==
  /\ call = NoCall
  /\ call' = [op |-> "Unpack", in |-> body, destOk |-> destOk,
              unpacked |-> unpackScript(body, destOk)]
  /\ UNCHANGED wait
  /\ UNCHANGED dbVars
  /\ UNCHANGED brokerVars
  /\ UNCHANGED workerVars
  /\ UNCHANGED loopVars

\* ----------------------------------------------- submission: the command
\* What client.PostNewJob returns: an error, or the server's reply.
PostResults ==
  { [err |-> TRUE, Status |-> "", Reason |-> "", ID |-> ""],
    [err |-> FALSE, Status |-> "error", Reason |-> "refused", ID |-> ""],
    [err |-> FALSE, Status |-> "ok", Reason |-> "", ID |-> "j1"] }

\* What client.WaitForJobs returns for the one ID: an error (among them the
\* timeout), or the terminal status of the job.
WaitResults ==
  { [err |-> TRUE, stats |-> <<>>],
    [err |-> FALSE, stats |-> <<[ID |-> "j1", Successful |-> FALSE]>>],
    [err |-> FALSE, stats |-> <<[ID |-> "j1", Successful |-> TRUE]>>] }

\* The flags and script files the command is run with: an empty path, "/"
\* and "a", and a file that does not open, does not read, is empty or holds
\* one byte.
SubmitSpecs ==
  {s \in JobSpecifications : s.RepositoryPath \in {<<>>, <<"/">>, <<"a">>}}
SubmitFiles ==
  {f \in ScriptFiles : f.content \in {<<>>, <<1>>} /\ f.readErr \in {0, 1}}

\* How the submit command ended: its exit status (2: a panic), the
\* specification handed to PostNewJob and whether WaitForJobs was called.
Exited(status, posted, waited) ==
  [exit |-> status, posted |-> posted, waited |-> waited]

\* Variant of submitCmd: the Status of the reply to PostNewJob is not looked at.
submitCmd_StatusNotChecked(startErr, spec, file, post, waits, waitRes) ==
  LET prep == Prepare(spec, file)
  IN IF startErr = "config" THEN Exited(1, <<>>, FALSE)
     ELSE IF prep.panic THEN Exited(2, <<>>, FALSE)
     ELSE IF prep.err # "" THEN Exited(1, <<>>, FALSE)
     ELSE IF startErr = "client" THEN Exited(1, <<>>, FALSE)
     ELSE IF post.err THEN Exited(1, <<prep.spec>>, FALSE)
     ELSE IF ~waits THEN Exited(0, <<prep.spec>>, FALSE)
     ELSE IF waitRes.err THEN Exited(1, <<prep.spec>>, TRUE)
     ELSE IF ~waitRes.stats[1].Successful THEN Exited(1, <<prep.spec>>, TRUE)
     ELSE Exited(0, <<prep.spec>>, TRUE)

\* The Run function of submitCmd.  startErr: ReadConfig ("config") or
\* NewJobClient ("client") failed; spec: the specification built from the
\* flags, file the file its Script names; post: what PostNewJob returns;
\* waits: the flag --wait; waitRes: what WaitForJobs returns.
submitCmd(startErr, spec, file, post, waits, waitRes) ==
  LET prep == Prepare(spec, file)
  IN IF startErr = "config" THEN Exited(1, <<>>, FALSE)
     ELSE IF prep.panic THEN Exited(2, <<>>, FALSE)
     ELSE IF prep.err # "" THEN Exited(1, <<>>, FALSE)
     ELSE IF startErr = "client" THEN Exited(1, <<>>, FALSE)
     ELSE IF post.err THEN Exited(1, <<prep.spec>>, FALSE)
     ELSE IF post.Status # "ok" THEN Exited(1, <<prep.spec>>, FALSE)
     ELSE IF ~waits THEN Exited(0, <<prep.spec>>, FALSE)
     ELSE IF waitRes.err THEN Exited(1, <<prep.spec>>, TRUE)
     ELSE IF ~waitRes.stats[1].Successful THEN Exited(1, <<prep.spec>>, TRUE)
     ELSE Exited(0, <<prep.spec>>, TRUE)

\* The submit command runs.
SubmitRun(startErr, spec, file, post, waits, waitRes) ==
  /\ call = NoCall
  /\ call' = [op |-> "submit", startErr |-> startErr, in |-> spec, file |-> file,
              prep |-> Prepare(spec, file), post |-> post, wait |-> waits,
              waitRes |-> waitRes,
              res |-> submitCmd(startErr, spec, file, post, waits, waitRes)]
  /\ UNCHANGED wait
  /\ UNCHANGED dbVars
  /\ UNCHANGED brokerVars
  /\ UNCHANGED workerVars
  /\ UNCHANGED loopVars

\* ------------------------------------------------- worker: process a job
\* The jobs a worker is handed: with and without payload, without script,
\* with the path of a script installed on the worker ("f"), or with a script
\* body (a packed script, or one with a character that is not of the
\* alphabet), each with and without TransferScript.
ScriptBodies ==
  PackedScripts \cup {[t EXCEPT ![Len(t)] = "-"] : t \in PackedScripts \ {<<>>}}
UnprocessedJobs ==
  {[Repository |-> "r1", RepositoryPath |-> "/a", Payload |-> p, Script |-> sc,
    ScriptArgs |-> "x", TransferScript |-> t] :
     p \in {"", "u1"}, sc \in {<<>>, <<"f">>} \cup ScriptBodies, t \in BOOLEAN}

\* The file-system call of process that is made to fail.
ProcessFails == {"none", "mkdir", "fetch", "create", "write"}

\* A file as exec sees it: permission bits, whether a descriptor is open on
\* it for writing, and its content.
NoFile == [path |-> "", mode |-> {}, open |-> FALSE, content |-> <<>>]

\* A script installed on the worker; its path stands for its content.
InstalledScript(p) ==
  [path |-> p, mode |-> {"r", "w", "x"}, open |-> FALSE, content |-> p]

\* os.Create(scriptFile): OpenFile(name, O_RDWR|O_CREATE|O_TRUNC, 0666), an
\* empty file without execute bit, open for writing.
Create(p) == [path |-> p, mode |-> {"r", "w"}, open |-> TRUE, content |-> <<>>]

\* cmd.Run() on the script: the operating system refuses to execute a file
\* without execute permission, or one that is open for writing; a script
\* that was started ends with exit status exit.
runScript(file, exit) ==
  IF "x" \notin file.mode THEN [started |-> FALSE, err |-> "permission denied"]
  ELSE IF file.open THEN [started |-> FALSE, err |-> "text file busy"]
  ELSE [started |-> TRUE, err |-> IF exit = 0 THEN "" ELSE "exit status"]

\* What process returns without having called runScript.
Returned(steps, err) ==
  [steps |-> steps, err |-> err, file |-> NoFile, started |-> FALSE, ran |-> <<>>]

\* The last step of process: runScript on file, after the steps done.
RunStep(steps, file, exit) ==
  [steps |-> Append(steps, "run"),
   err |-> IF runScript(file, exit).err # ""
             THEN "running transaction script failed" ELSE "",
   file |-> file,
   started |-> runScript(file, exit).started,
   ran |-> IF runScript(file, exit).started THEN file.content ELSE <<>>]

\* Variant of process: an error of unpackScript is logged and the script file
\* is run as it is.
process_RunsAfterFailedUnpack(j, fail, exit) ==
  LET s1 == IF j.Payload # "" THEN <<"mkdir", "fetch">> ELSE <<"mkdir">>
      u == unpackScript(j.Script, fail # "write")
  IN IF fail = "mkdir" THEN Returned(<<"mkdir">>, "could not create target dir")
     ELSE IF j.Payload # "" /\ fail = "fetch"
       THEN Returned(s1, "could not download payload")
     ELSE IF j.Script = <<>> THEN Returned(s1, "")
     ELSE IF ~j.TransferScript
       THEN RunStep(s1, InstalledScript(j.Script), exit)
     ELSE IF fail = "create"
       THEN Returned(Append(s1, "create"), "creating destination file failed")
     ELSE RunStep(s1 \o <<"create", "unpack">>,
                  [Create(<<"transaction.sh">>) EXCEPT !.content = u.written], exit)

\* UnprocessedJob.process(tempDir): the steps it takes in order, the error
\* it returns ("": nil), the script file handed to runScript as it is at
\* that call, whether the script was started and the content that ran.
\* The deferred f.Close() runs when process returns, after runScript.
process(j, fail, exit) ==
  LET s1 == IF j.Payload # "" THEN <<"mkdir", "fetch">> ELSE <<"mkdir">>
      u == unpackScript(j.Script, fail # "write")
  IN IF fail = "mkdir" THEN Returned(<<"mkdir">>, "could not create target dir")
     ELSE IF j.Payload # "" /\ fail = "fetch"
       THEN Returned(s1, "could not download payload")
     ELSE IF j.Script = <<>> THEN Returned(s1, "")
     ELSE IF ~j.TransferScript
       THEN RunStep(s1, InstalledScript(j.Script), exit)
     ELSE IF fail = "create"
       THEN Returned(Append(s1, "create"), "creating destination file failed")
     ELSE IF u.err # ""
       THEN Returned(s1 \o <<"create", "unpack">>,
                     "unpacking transaction script failed")
     ELSE RunStep(s1 \o <<"create", "unpack">>,
                  [Create(<<"transaction.sh">>) EXCEPT !.content = u.written], exit)

\* A worker processes a job; the call and its result are recorded.
ProcessCall(j, fail, exit) ==
  /\ call = NoCall
  /\ call' = [op |-> "process", job |-> j, fail |-> fail, exit |-> exit,
              unpacked |-> unpackScript(j.Script, TRUE),
              res |-> process(j, fail, exit)]
  /\ UNCHANGED wait
  /\ UNCHANGED dbVars
  /\ UNCHANGED brokerVars
  /\ UNCHANGED workerVars
  /\ UNCHANGED loopVars

\* The job table a worker finds: empty, or holding the outcome of job j1.
InitTables ==
  { {}, {InsertRow(MkProcessed("j1", TRUE))}, {InsertRow(MkProcessed("j1", FALSE))} }

InitWith(tables) ==
  /\ mstate = [m \in Msgs |-> "unpublished"]
  /\ mbody = [m \in Msgs |-> NoBody]
  /\ deliv = [m \in Msgs |-> 0]
  /\ attempts = [m \in Msgs |-> 0]
  /\ disp = [m \in Msgs |-> <<>>]
  /\ txres = [m \in Msgs |-> "none"]
  /\ began = [m \in Msgs |-> FALSE]
  /\ fetched = [m \in Msgs |-> FALSE]
  /\ lost = [m \in Msgs |-> FALSE]
  /\ pc = [w \in Workers |-> "wait"]
  /\ cur = [w \in Workers |-> 0]
  /\ desc = [w \in Workers |-> ZeroDesc]
  /\ taskErr = [w \in Workers |-> FALSE]
  /\ repoTx = [r \in Repos |-> NoTx]
  /\ table \in tables
  /\ put = [c \in Clients |-> NoPut]
  /\ putReply = [c \in Clients |-> NoPutReply]
  /\ getReply = NoGet
  /\ call = NoCall
  /\ wait = NoWait
  /\ conn = [w \in Workers |-> "open"]
  /\ handler = [m \in Msgs |-> "none"]

Init == InitWith(InitTables)

\* The job tables PutJob can build: at most one row for an ID.
StoredTables ==
  {t \in SUBSET {InsertRow(j) : j \in ProcessedJobs} :
     \A r1, r2 \in t : r1.ID = r2.ID => r1 = r2}

InitQuery == InitWith(StoredTables)

WorkerNext ==
  \/ \E m \in Msgs, b \in Bodies : Publish(m, b)
  \/ \E w \in Workers, m \in Msgs : RunUnmarshalFail(w, m)
  \/ \E w \in Workers, m \in Msgs : RunUnmarshalOk(w, m)
  \/ \E w \in Workers : TxBegin(w)
  \/ \E w \in Workers, o \in {"mkdir_err", "fetch_err", "ok"} : Task(w, o)
  \/ \E w \in Workers, f \in BOOLEAN : TxEnd(w, f)
  \/ \E w \in Workers : RunDispose(w)
  \/ \E w \in Workers : ChanClosed(w)
  \/ \E w \in Workers : WatchdogExit(w)
  \/ \E w \in Workers : RunReturn(w)

DBNext ==
  \/ \E c \in Clients, j \in ProcessedJobs, f \in BOOLEAN : PutBegin(c, j, f)
  \/ \E c \in Clients, f \in BOOLEAN : PutExec(c, f)
  \/ \E c \in Clients, f \in BOOLEAN : PutCommit(c, f)
  \/ \E id \in JobIDs, full \in BOOLEAN, f \in GetFails : GetJobCall(id, full, f)

\* The worker with the broker and the repository.
Next == WorkerNext

Spec == Init /\ [][Next]_vars

\* The job database with its clients.
SpecDB == Init /\ [][DBNext]_vars

QueryNext ==
  \E ids \in IDLists, full \in BOOLEAN, fail \in GetFails,
     at \in 1..Cardinality(JobIDs) :
    GetJobsCall(ids, full, fail, at)

SubmitNext ==
  \/ \E spec \in JobSpecifications, file \in ScriptFiles : PrepareCall(spec, file)
  \/ \E b \in ByteSeqs(MaxScriptLen) : PackUnpackCall(b)
  \/ \E body \in Bodies64, ok \in BOOLEAN : UnpackCall(body, ok)

InitSubmit == InitWith({{}})

\* The preparation of a job and the packing of its script.
SpecSubmit == InitSubmit /\ [][SubmitNext]_vars

WaitNext ==
  \/ \E j \in ProcessedJobs : PutBegin("c1", j, FALSE)
  \/ PutExec("c1", FALSE)
  \/ PutCommit("c1", FALSE)
  \/ \E ids \in IDLists : WaitStart(ids)
  \/ \E fail \in GetFails, at \in 1..Cardinality(JobIDs) : WaitPoll(fail, at)

\* A client waiting for jobs while their outcomes are being stored.
SpecWait == Init /\ [][WaitNext]_vars

CheckNext ==
  \E startErr \in {"none", "config", "client"}, waitRes \in {"off", "ok", "failed"},
     getErr \in BOOLEAN, extended \in BOOLEAN, ids \in IDLists,
     fail \in GetFails, at \in 1..Cardinality(JobIDs) :
    CheckRun(startErr, waitRes, getErr, extended, ids, fail, at)

\* The check command on the tables PutJob can build.
SpecCheck == InitQuery /\ [][CheckNext]_vars

ReplyNext ==
  \/ \E id \in JobIDs, full \in BOOLEAN, f \in GetFails : GetJobCall(id, full, f)
  \/ \E ids \in IDLists, full \in BOOLEAN, fail \in GetFails,
        at \in 1..Cardinality(JobIDs) : GetJobsCall(ids, full, fail, at)
  \/ \E j \in ProcessedJobs, fail \in PutFails : PutJobCall(j, fail)

\* One client of the job database and the replies it gets.
SpecReply == InitQuery /\ [][ReplyNext]_vars

ProcessNext ==
  \E j \in UnprocessedJobs, fail \in ProcessFails, exit \in {0, 1} :
    ProcessCall(j, fail, exit)

\* The processing of one job by a worker.
SpecProcess == InitSubmit /\ [][ProcessNext]_vars

SubmitCmdNext ==
  \E startErr \in {"none", "config", "client"}, spec \in SubmitSpecs,
     file \in SubmitFiles, post \in PostResults, w \in BOOLEAN,
     waitRes \in WaitResults :
    SubmitRun(startErr, spec, file, post, w, waitRes)

\* The submit command, from the flags to the exit status.
SpecSubmitCmd == InitSubmit /\ [][SubmitCmdNext]_vars

\* GetJobs on the tables PutJob can build.
SpecQuery == InitQuery /\ [][QueryNext]_vars

\* ------------------------------------------------------------------ claims
Nacks == {"nack_requeue", "nack_drop"}

\* The dependencies of message m's job that have a row / a failed row.
DepDone(d) == \E r \in table : r.ID = d /\ r.Successful
DepFailed(d) == \E r \in table : r.ID = d /\ ~r.Successful

\* C1: every consumed, parseable job is finalized: once its message has left
\* the queue by an Ack, the job table holds exactly one row for the job's ID.
C1_AckedJobHasOneRow ==
  \A m \in Msgs :
    mstate[m] = "acked" =>
      Cardinality(RowsOf(table, MsgJobID(mbody[m]))) = 1

\* C2: one job is processed at most MaxJobRetries times.
C2_AttemptsBounded ==
  \A m \in Msgs : attempts[m] <= MaxJobRetries

\* C3: a delivery whose body does not parse is rejected with
\* Nack(requeue=false): it is delivered once, no transaction is opened and
\* nothing is fetched for it, it leaves the queue, and the worker is not kept
\* busy by it.
C3_MalformedRejected ==
  \A m \in Msgs :
    (mstate[m] # "unpublished" /\ UnmarshalErr(mbody[m])) =>
      /\ deliv[m] <= 1
      /\ ~began[m] /\ ~fetched[m] /\ attempts[m] = 0
      /\ \A w \in Workers : cur[w] # m
      /\ mstate[m] \in {"ready", "dropped"}
      /\ (deliv[m] = 1 => mstate[m] = "dropped" /\ disp[m] = <<"nack_drop">>)

\* A body that does not parse was rejected, and the same worker is executing
\* the job of a later delivery (its desc shows the field the rejected body left).
C3_Witness ==
  \E m \in Msgs, w \in Workers :
    /\ mbody[m].kind = "type" /\ mstate[m] = "dropped" /\ disp[m] = <<"nack_drop">>
    /\ pc[w] = "task" /\ cur[w] # m /\ desc[w].ID = "j2" /\ desc[w].Path = "b"

\* C4 as stated: every delivery that is no longer being handled has received
\* exactly one disposition.
C4_ExactlyOneDisposition ==
  \A m \in Msgs :
    (deliv[m] > 0 /\ mstate[m] # "unacked") => Len(disp[m]) = 1

\* C4 as amended: no delivery receives two dispositions, none while the
\* transaction is running, an Ack only after transaction.Run returned without
\* error, and every delivery whose handling ran to its end (the process did
\* not exit during it) has received exactly one.
C4_OneDispositionUnlessExit ==
  \A m \in Msgs :
    /\ Len(disp[m]) <= 1
    /\ (mstate[m] = "unacked" => disp[m] = <<>>)
    /\ ((deliv[m] > 0 /\ mstate[m] # "unacked" /\ ~lost[m]) => Len(disp[m]) = 1)
    /\ (lost[m] => disp[m] = <<>>)
    /\ (disp[m] = <<"ack">> => txres[m] = "ok" /\ mstate[m] = "acked")
    /\ (disp[m] = <<"nack_requeue">> => txres[m] = "err")

\* One delivery was acknowledged after its transaction, another was in
\* flight when the channel closed and the process went down.
C4_Witness ==
  \E m, n \in Msgs :
    /\ disp[m] = <<"ack">> /\ txres[m] = "ok"
    /\ lost[n] /\ deliv[n] > 0 /\ mstate[n] = "ready"

\* C5: once transaction.Run has returned (the worker is about to dispose of
\* the delivery, or has done so), the worker holds no open transaction; a
\* message it rejected or requeued has no open transaction.
C5_NoOpenTxAfterFailure ==
  /\ \A w \in Workers :
       pc[w] \in {"dispose", "wait", "txbegin"} =>
         \A r \in Repos : repoTx[r].w # w
  /\ \A m \in Msgs :
       (disp[m] # <<>> /\ disp[m][1] \in Nacks) =>
         \A r \in Repos : repoTx[r].m # m

\* A job failed after its transaction was opened and the payload fetch was
\* tried, was requeued, and no transaction is open.
C5_Witness ==
  \E m \in Msgs :
    /\ disp[m] = <<"nack_requeue">> /\ began[m] /\ fetched[m]
    /\ \A r \in Repos : repoTx[r] = NoTx

\* C6: a transaction is opened for a job only when every dependency of the
\* job has a successful row in the job table.
C6_DependenciesGateExecution ==
  \A m \in Msgs :
    began[m] => \A d \in SeqRange(MsgDeps(mbody[m])) : DepDone(d)

\* C7: a job with a dependency that finished unsuccessfully is not executed
\* (nothing is fetched for it) and not retried.
C7_FailedDependencyNotRun ==
  \A m \in Msgs :
    (\E d \in SeqRange(MsgDeps(mbody[m])) : DepFailed(d)) =>
      ~fetched[m] /\ disp[m] # <<"nack_requeue">>

\* C8: the job table holds at most one row per ID, a PutJob for an ID that has
\* a row fails and leaves the table alone, and rows are never changed or deleted.
C8_OneImmutableRowPerID ==
  /\ [](\A id \in JobIDs : Cardinality(RowsOf(table, id)) <= 1)
  /\ [][table \subseteq table']_vars
  /\ [][\A c \in Clients :
          (put[c].pc # "idle" /\ put'[c].pc = "idle"
             /\ KeyConflict(table, put[c].job.ID))
          => (putReply'[c].err /\ putReply'[c].Status = "error" /\ table' = table)]_vars

\* A PutJob for an ID that has a row was refused by the insert itself.
C8_Witness ==
  \E c \in Clients :
    /\ putReply[c].Reason = "executing SQL statement failed"
    /\ ~putReply[c].injected
    /\ Cardinality(RowsOf(table, putReply[c].id)) = 1

\* C9: the table changes only in the step in which a PutJob commits, which
\* adds exactly the row of that job and replies "ok"; a PutJob that ends with
\* an error leaves the table unchanged and replies "error"; a row written in
\* an open transaction is not in the table.
C9_PutJobAtomic ==
  /\ [](\A c \in Clients :
          put[c].pc = "execd" => RowsOf(table, put[c].job.ID) = {})
  /\ [][/\ table' # table =>
             \E c \in Clients :
               /\ put[c].pc = "execd" /\ put'[c].pc = "idle"
               /\ putReply'[c].Status = "ok" /\ ~putReply'[c].err
               /\ InsertRow(put[c].job) \notin table
               /\ table' = table \cup {InsertRow(put[c].job)}
        /\ \A c \in Clients :
             (putReply'[c] # putReply[c] /\ putReply'[c].err)
               => (table' = table /\ putReply'[c].Status = "error")
        /\ \A c \in Clients :
             (putReply'[c] # putReply[c] /\ putReply'[c].Status = "ok")
               => table' = table \cup {InsertRow(put[c].job)}]_vars

\* One PutJob failed at commit and left no row; another one stored its row.
C9_Witness ==
  \E c, d \in Clients :
    /\ putReply[c].Reason = "committing SQL transaction failed"
    /\ RowsOf(table, putReply[c].id) = {}
    /\ putReply[d].Status = "ok"
    /\ RowsOf(table, putReply[d].id) # {}

\* C10: a GetJob whose query succeeds and finds no row for the ID returns a
\* nil error and the reply Status "ok", empty Reason, no IDs and no Jobs.
C10_UnknownIDIsOk ==
  (getReply.called /\ ~getReply.found /\ getReply.fail # "query") =>
    /\ ~getReply.err
    /\ getReply.reply = [Status |-> "ok", Reason |-> "", IDs |-> <<>>, Jobs |-> <<>>]

\* GetJob was called for an ID without a row while another ID has one.
C10_Witness ==
  /\ getReply.called /\ ~getReply.found /\ getReply.fail = "none"
  /\ getReply.reply.Status = "ok"
  /\ table # {}

\* The entries of a GetJobs reply: the jobs of a full reply, the statuses
\* of a brief one; and the list the reply leaves empty.
Entries(c) == IF c.full THEN c.reply.Jobs ELSE c.reply.IDs
OtherEntries(c) == IF c.full THEN c.reply.IDs ELSE c.reply.Jobs

\* What GetJobs shows of row r: the job with r's column values in a full
\* reply, the pair (ID, Successful) in a brief one.
Shows(c, e, r) ==
  IF c.full THEN InsertRow(e) = r
  ELSE e = [ID |-> r.ID, Successful |-> r.Successful]

\* C11: GetJobs of a list of at least one ID, when no database call fails,
\* answers "ok" without an error, with exactly one entry for every stored
\* row whose ID is in the list and no other entry: the pair (ID, Successful)
\* in IDs, with Jobs empty, for full = false; the full row in Jobs, with IDs
\* empty, for full = true.
C11_GetJobsOneEntryPerRow ==
  (call.op = "GetJobs" /\ call.ids # <<>> /\ call.fail = "none") =>
    /\ ~call.panic /\ ~call.err /\ call.reply.Status = "ok"
    /\ OtherEntries(call) = <<>>
    /\ Len(Entries(call)) = Cardinality(InQuery(table, call.ids))
    /\ \A r \in InQuery(table, call.ids) :
         \E i \in 1..Len(Entries(call)) : Shows(call, Entries(call)[i], r)
    /\ \A i \in 1..Len(Entries(call)) :
         \E r \in InQuery(table, call.ids) : Shows(call, Entries(call)[i], r)

\* A full query for two stored jobs and an ID without a row was answered.
C11_Witness ==
  /\ call.op = "GetJobs" /\ call.fail = "none" /\ call.full
  /\ SeqRange(call.ids) = {"j2", "j3"}
  /\ Cardinality(table) = 2
  /\ Len(call.reply.Jobs) = 1

\* C12: GetJobs is all-or-nothing: when the query or the reading of a row
\* fails it returns an error, Status "error" and no rows, and a reply never
\* holds only a part of the selected rows.
C12_GetJobsAllOrNothing ==
  (call.op = "GetJobs" /\ ~call.panic) =>
    /\ Len(Entries(call)) \in {0, Len(call.rows)}
    /\ (call.fail = "query" \/ (call.fail \in {"next", "scan"} /\ call.at <= Len(call.rows)))
         => (call.err /\ call.reply.Status = "error" /\ Entries(call) = <<>>)

\* C13: for every JobSpecification Prepare returns with a RepositoryPath
\* that begins with "/": a path without a leading "/" has exactly one "/"
\* put before it, a path with a leading "/" is unchanged, and so Prepare
\* applied again leaves the path as it is.
C13_PathNormalised ==
  call.op = "Prepare" =>
    /\ ~call.panic
    /\ Head(call.out.RepositoryPath) = "/"
    /\ call.out.RepositoryPath =
         IF call.in.RepositoryPath # <<>> /\ Head(call.in.RepositoryPath) = "/"
           THEN call.in.RepositoryPath
           ELSE <<"/">> \o call.in.RepositoryPath
    /\ Prepare(call.out, call.file).spec.RepositoryPath = call.out.RepositoryPath

\* Whether Prepare has a script file to pack, and whether packing it works.
MustPack(c) == c.in.Script # <<>> /\ c.in.TransferScript
Packable(c) == c.file.opens /\ packScript(c.file).err = ""

\* C14: a Prepare that returns has replaced Script by the packed content of
\* the script file exactly when TransferScript is set, Script is not empty
\* and the file can be opened and packed; if the file cannot be opened or
\* packed it returns an error and Script is as before; in every other case
\* Script is unchanged; and no field but RepositoryPath and Script differs.
C14_ScriptPackedOnlyWhenAsked ==
  (call.op = "Prepare" /\ ~call.panic) =>
    /\ \A f \in DOMAIN call.in \ {"RepositoryPath", "Script"} : call.out[f] = call.in[f]
    /\ (MustPack(call) /\ Packable(call)) =>
         /\ call.err = ""
         /\ call.out.Script # call.in.Script
         /\ unpackScript(call.out.Script, TRUE) = [err |-> "", written |-> call.file.content]
    /\ (MustPack(call) /\ ~Packable(call)) =>
         (call.err # "" /\ call.out.Script = call.in.Script)
    /\ ~MustPack(call) => (call.err = "" /\ call.out.Script = call.in.Script)

\* A script file of two bytes was packed into the specification.
C14_Witness ==
  /\ call.op = "Prepare" /\ ~call.panic /\ call.err = ""
  /\ MustPack(call) /\ Len(call.file.content) = MaxScriptLen
  /\ call.out.Script # call.in.Script

C16_GetJobReturnsWhatWasPut ==
  \A j \in ProcessedJobs :
    (/\ getReply.called /\ getReply.id = j.ID /\ getReply.fail = "none"
     /\ getReply.found /\ InsertRow(j) \in table) =>
      /\ ~getReply.err /\ getReply.reply.Status = "ok"
      /\ getReply.reply.Jobs = IF getReply.full THEN <<j>> ELSE <<>>
      /\ getReply.reply.IDs =
           IF getReply.full THEN <<>>
           ELSE <<[ID |-> j.ID, Successful |-> j.Successful]>>

\* A client stored the failed job j2 with its two dependencies, and a full
\* GetJob read it back.
C16_Witness ==
  /\ \E c \in Clients : putReply[c].Status = "ok" /\ putReply[c].id = "j2"
  /\ getReply.called /\ getReply.id = "j2" /\ getReply.full
  /\ getReply.fail = "none" /\ Len(getReply.reply.Jobs) = 1
  /\ getReply.reply.Jobs[1].Dependencies = <<"j1", "j3">>

\* C17: WaitForJobs returns successfully only when every listed ID has a
\* terminal status, a stored outcome, and then returns the status of each
\* listed ID; when the timeout passes before that it returns an error; and
\* a WaitForJobs that returns an error returns no statuses.
C17_WaitAllOrError ==
  /\ [](wait.pc = "done" =>
          /\ ~wait.err
          /\ \A i \in 1..Len(wait.ids) :
               \E r \in table, k \in 1..Len(wait.stats) :
                 /\ r.ID = wait.ids[i]
                 /\ wait.stats[k] = [ID |-> r.ID, Successful |-> r.Successful])
  /\ [](wait.pc = "failed" => (wait.err /\ wait.stats = <<>>))
  /\ [][(wait.pc = "polling" /\ wait.polls = MaxPolls /\ wait' # wait
         /\ \E i \in 1..Len(wait.ids) : RowsOf(table, wait.ids[i]) = {})
        => wait'.pc = "failed"]_vars

\* A wait for two jobs returned their statuses after a round in which one
\* of them was not finished.
C17_Witness ==
  /\ wait.pc = "done" /\ wait.polls > 0
  /\ SeqRange(wait.ids) = {"j1", "j2"} /\ Len(wait.stats) = 2

\* C18: the check command exits non-zero and prints no status line when it
\* cannot start, when waiting for the jobs fails, when the status query
\* returns an error and when the reply's Status is not "ok"; otherwise it
\* exits with 0 and prints exactly one line per job of the reply, in the
\* reply's order: the extended entries with --extended-status, the brief
\* ones without.
C18_CheckExitAndLines ==
  call.op = "check" =>
    IF \/ call.startErr # "none" \/ call.waitRes = "failed"
       \/ call.getErr \/ call.stats.Status # "ok"
      THEN call.exit # 0 /\ call.out = <<>>
      ELSE /\ call.exit = 0
           /\ LET es == IF call.extended THEN call.stats.Jobs ELSE call.stats.IDs
              IN /\ Len(call.out) = Len(es)
                 /\ \A i \in 1..Len(es) : call.out[i] = [json |-> es[i]]

\* After a wait that succeeded the command printed the extended statuses
\* of two jobs.
C18_Witness ==
  /\ call.op = "check" /\ call.exit = 0 /\ call.extended
  /\ Len(call.out) = 2 /\ call.waitRes = "ok"

\* C19: once the close notification of a worker's channel has fired, the
\* process ends with a non-zero exit status, by the watchdog's os.Exit(1)
\* and not by a return of Run, and takes no further delivery; a delivery
\* that was in flight has no Ack and no Nack and is ready for redelivery.
C19_CloseIsFatal ==
  /\ [](\A w \in Workers : conn[w] = "closed" => pc[w] # "returned")
  /\ [](\A m \in Msgs : lost[m] => (disp[m] = <<>> /\ mstate[m] = "ready"))
  /\ [][\A w \in Workers : conn[w] = "closed" => deliv' = deliv]_vars

\* C20: a worker's loop handles at most one delivery at a time, and takes
\* a delivery only when it handles none and holds no open transaction.
C20_OneJobAtATime ==
  /\ [](\A w \in Workers : Cardinality({m \in Msgs : handler[m] = w}) <= 1)
  /\ [][\A m \in Msgs : deliv'[m] > deliv[m] =>
          \E w \in Workers :
            /\ \A n \in Msgs : handler[n] # w
            /\ \A r \in Repos : repoTx[r].w # w
            /\ handler'[m] \in {w, "none"}]_vars

\* A worker is handling its second delivery after it acknowledged the
\* first, while another message is ready in the queue.
C20_Witness ==
  \E m, n \in Msgs, w \in Workers :
    /\ disp[m] = <<"ack">> /\ handler[m] = "none"
    /\ handler[n] = w /\ pc[w] = "task" /\ deliv[n] > 1

\* C24: the description the loop executes for a delivery is the one its
\* body alone decodes to (from the zero description): no field value of an
\* earlier delivery is left in it.
C24_DescFromBodyOnly ==
  \A w \in Workers :
    pc[w] \in {"txbegin", "task", "txend"} =>
      desc[w] = UnmarshalDesc(mbody[cur[w]], ZeroDesc)

\* A reply and the error returned with it agree.
Agree(reply, err) ==
  /\ ~err <=> (reply.Status = "ok" /\ reply.Reason = "")
  /\ err <=> (reply.Status = "error" /\ reply.Reason # "")

\* C25: whatever GetJob, GetJobs or PutJob returns, the error is nil exactly
\* when the reply has Status "ok" and an empty Reason, and non-nil exactly
\* when the reply has Status "error" and a Reason.
C25_ReplyAndErrorAgree ==
  /\ getReply.called => Agree(getReply.reply, getReply.err)
  /\ (call.op = "GetJobs" /\ ~call.panic) => Agree(call.reply, call.err)
  /\ call.op = "PutJob" => Agree(call.reply, call.err)

\* PutJob was refused for a failed commit after GetJob had answered for a
\* row whose scan failed.
C25_Witness ==
  /\ call.op = "PutJob" /\ call.fail = "commit" /\ ~call.conflict /\ call.err
  /\ getReply.called /\ getReply.fail = "scan" /\ getReply.err

\* The place of a step in the order of process.
StepRank(s) ==
  CASE s = "mkdir" -> 1 [] s = "fetch" -> 2 [] s = "create" -> 3
    [] s = "unpack" -> 4 [] s = "run" -> 5

\* The steps a call of process took.
Took(c, s) == \E i \in 1..Len(c.res.steps) : c.res.steps[i] = s

\* The step of a call of process that failed.
FailedAt(c, s) == c.res.err # "" /\ c.res.steps[Len(c.res.steps)] = s

\* C21: process creates the target directory, fetches the payload, unpacks
\* the script and runs the script, in this order: the payload is fetched if
\* and only if there is one, the script is run if and only if there is one,
\* after an unpacking if and only if TransferScript is set, and the step
\* that fails is the last one taken (no script runs after a failed fetch or
\* a failed unpacking).
C21_ProcessStepsInOrder ==
  call.op = "process" =>
    LET j == call.job
        st == call.res.steps
        unpacks == unpackScript(j.Script, call.fail # "write").err = ""
    IN /\ st[1] = "mkdir"
       /\ \A i, k \in 1..Len(st) : i < k => StepRank(st[i]) < StepRank(st[k])
       /\ call.fail # "mkdir" => (Took(call, "fetch") <=> j.Payload # "")
       /\ Took(call, "run") =>
            /\ j.Script # <<>>
            /\ Took(call, "unpack") <=> j.TransferScript
            /\ call.fail # "mkdir"
            /\ call.fail = "create" => ~j.TransferScript
            /\ call.fail = "fetch" => j.Payload = ""
            /\ j.TransferScript => unpacks
       /\ ~Took(call, "run") => (j.Script = <<>> \/ call.res.err # "")
       /\ call.fail = "mkdir" => (st = <<"mkdir">> /\ call.res.err # "")
       /\ (call.fail = "fetch" /\ j.Payload # "") => FailedAt(call, "fetch")
       /\ (Took(call, "unpack") /\ ~unpacks) => FailedAt(call, "unpack")

\* A job with a payload and a transfer script that unpacks: the directory
\* was made, the payload fetched, the script unpacked and handed to
\* runScript, in this order.
C21_Witness ==
  /\ call.op = "process"
  /\ call.job.Payload # "" /\ call.job.TransferScript
  /\ call.res.steps = <<"mkdir", "fetch", "create", "unpack", "run">>
  /\ Len(call.res.file.content) = MaxScriptLen

\* C22: the file a transfer script is unpacked into has execute permission
\* and is completely written and closed when runScript executes it, and what
\* runs is the unpacked content.
C22_TransferScriptRunsAsUnpacked ==
  (call.op = "process" /\ call.job.TransferScript /\ Took(call, "run")) =>
    /\ "x" \in call.res.file.mode
    /\ ~call.res.file.open
    /\ call.res.file.content = call.unpacked.written
    /\ call.res.started
    /\ call.res.ran = call.unpacked.written

\* C23: the submit command exits with status 0 only if Prepare succeeded,
\* the job was then posted and the reply had Status "ok", and, with --wait,
\* the wait ended without error on a job with Successful = true; no job is
\* posted after a failed Prepare and no wait starts after a failed posting.
C23_SubmitExitStatus ==
  call.op = "submit" =>
    LET prepOk == ~call.prep.panic /\ call.prep.err = ""
        postOk == ~call.post.err /\ call.post.Status = "ok"
    IN /\ call.res.exit = 0 =>
            /\ prepOk
            /\ call.res.posted = <<call.prep.spec>>
            /\ postOk
            /\ call.wait =>
                 /\ call.res.waited
                 /\ ~call.waitRes.err
                 /\ call.waitRes.stats[1].Successful
       /\ ~prepOk => call.res.posted = <<>>
       /\ (call.res.posted = <<>> \/ ~postOk) => ~call.res.waited
       /\ ~call.wait => ~call.res.waited

\* Submit with --wait of a job whose script was packed: the job was posted,
\* accepted and waited for, and the command exits with 0.
C23_Witness ==
  /\ call.op = "submit" /\ call.res.exit = 0
  /\ call.wait /\ call.res.waited
  /\ call.in.TransferScript /\ call.in.Script # <<>>
  /\ call.res.posted # <<call.in>>

====
